---- MODULE Spec2Model ----
(***************************************************************************)
(* PkgBot recipe API (src/api/recipe.py): the Recipe CRUD endpoints and    *)
(* the error / trust workflow callbacks, over the Recipes and              *)
(* ErrorMessages tables.  Every handler is one action; a handler that      *)
(* raises keeps the writes it made before the raise (no transaction).      *)
(***************************************************************************)
EXTENDS Integers, Sequences, FiniteSets, Bags, TLC

\* ---------------------------------------------------------------- bounds
\* Rows the ErrorMessages table may hold.
MaxErrors == 2
\* Rows ever inserted into the Recipes table (its autoincrement id).
MaxRecipes == 2
\* Background trust actions in flight at once.
MaxTasks == 2

\* ---------------------------------------------------------------- inputs
RecipeIds == {"R1", "R2"}
Users == {"U1", "U2"}
Channels == {"C1"}
Msgs == {"trust info"}
\* Handles the chat platform returns for a posted message.
SlackTs == {"ts1"}
SlackChannels == {"C1"}
\* Python None, for a nullable column.
None == "None"

\* Python strings that are parsed are sequences of characters.  One text
\* without a ": " separator and one with.
ErrorTexts ==
    { <<"a">>,
      <<"a", ":", " ", "b">> }

\* The characters of a recipe_id.
Chars == [r \in RecipeIds |-> IF r = "R1" THEN <<"R", "1">> ELSE <<"R", "2">>]

VARIABLES
    Recipes,            \* the Recipes table: a set of rows
    recipe_seq,         \* the last id the Recipes table handed out
    ErrorMessages,      \* the ErrorMessages table: row i has id i
    background_tasks,   \* bag of dispatched recipe_runner.main calls in flight
    last,               \* the latest call: endpoint, arguments, outcome, messages sent
    suspended,          \* handler invocations waiting at an await, with their locals
    trust_failed        \* the trust actions whose failure the runner reported last

\* What the interleaved specification adds to the tables.
async_vars == <<suspended, trust_failed>>

vars == <<Recipes, recipe_seq, ErrorMessages, background_tasks, last, suspended,
          trust_failed>>

\* ------------------------------------------------------------ ORM queries
\* models.Recipes.filter(recipe_id=...)
RecipesByRecipeId(recipe_id) == {r \in Recipes : r.recipe_id = recipe_id}

\* models.Recipes.filter(id=...)
RecipesById(id) == {r \in Recipes : r.id = id}

\* QuerySet.first() on a non-empty result: the row of least id.
First(rows) == CHOOSE r \in rows : \A o \in rows : r.id <= o.id

\* models.ErrorMessages.get(id=...): the ids that match.
ErrorIdsById(id) == {i \in 1..Len(ErrorMessages) : i = id}

\* models.ErrorMessages.get(recipe_id=...): the ids that match.
ErrorIdsByRecipeId(recipe_id) ==
    {i \in 1..Len(ErrorMessages) : ErrorMessages[i].recipe_id = recipe_id}

\* QuerySet.get(): one row, or DoesNotExist, or MultipleObjectsReturned.
GetOutcome(ids) ==
    IF ids = {} THEN "DoesNotExist"
    ELSE IF Cardinality(ids) > 1 THEN "MultipleObjectsReturned"
    ELSE "ok"

\* models.ErrorMessages.create(recipe_id=...): the new row, handles null.
NewErrorMessage(recipe_id) ==
    [recipe_id |-> recipe_id, slack_ts |-> None, slack_channel |-> None]

\* Mutant: the update is not narrowed to the row of the id.
UpdateHandles_AllRows(errors, id, results) ==
    [i \in 1..Len(errors) |-> [errors[i] EXCEPT !.slack_ts = results.ts,
                                                !.slack_channel = results.channel]]

\* models.ErrorMessages.update_or_create(updates, id=...) on an existing row.
UpdateHandles(errors, id, results) ==
    [errors EXCEPT ![id].slack_ts = results.ts,
                   ![id].slack_channel = results.channel]

\* recipe_object.enabled = <value>; await recipe_object.save()
SaveEnabled(recipes, recipe_object, value) ==
    (recipes \ {recipe_object}) \cup {[recipe_object EXCEPT !.enabled = value]}

\* What a chat post returns: results.get('ts'), results.get('channel').
SlackResults == [ts : SlackTs, channel : SlackChannels]

\* ----------------------------------------------------------- error parsing
\* error.split(': '): cut at each ": ", left to right.
RECURSIVE SplitFrom(_, _, _)
SplitFrom(s, i, tok) ==
    IF i > Len(s) THEN <<tok>>
    ELSE IF i + 1 <= Len(s) /\ s[i] = ":" /\ s[i + 1] = " "
         THEN <<tok>> \o SplitFrom(s, i + 2, <<>>)
         ELSE SplitFrom(s, i + 1, Append(tok, s[i]))

split(s) == SplitFrom(s, 1, <<>>)

\* Mutant: the list is folded in the order it was split.
Reversed_Forgotten(l) == l

\* error_list[::-1]
Reversed(l) == [i \in 1..Len(l) |-> l[Len(l) + 1 - i]]

\* A Python str value and a one-key dict value.
PyStr(s) == [str |-> s]
PyDict(k, v) == [key |-> k, value |-> v]

\* reduce(lambda x, y: {y: x}, l) without initial value, from element i on.
RECURSIVE ReduceFrom(_, _, _)
ReduceFrom(l, i, x) ==
    IF i > Len(l) THEN x ELSE ReduceFrom(l, i + 1, PyDict(l[i], x))

\* reduce raises TypeError on an empty sequence only.
ReduceRaises(l) == Len(l) = 0

reduce(l) == ReduceFrom(l, 2, PyStr(l[1]))

\* try: split and reduce; except: { recipe_id: error }
error_dict_of(recipe_id, error) ==
    LET error_list == split(error)
    IN  IF ReduceRaises(Reversed(error_list))
        THEN PyDict(Chars[recipe_id], PyStr(error))
        ELSE reduce(Reversed(error_list))

\* ------------------------------------------------------------------ calls
Call(op, recipe_id, id, result, sent) ==
    [op |-> op, recipe_id |-> recipe_id, id |-> id, result |-> result, sent |-> sent,
     caller |-> <<>>]

\* A call made on behalf of a chat user: the user and the channel it came from.
CallBy(call, user_id, channel) == [call EXCEPT !.caller = <<user_id, channel>>]

Init ==
    /\ Recipes = {}
    /\ recipe_seq = 0
    /\ ErrorMessages = <<>>
    /\ background_tasks = EmptyBag
    /\ last = Call("start", None, 0, "ok", <<>>)
    /\ suspended = {}
    /\ trust_failed = {}

\* ------------------------------------------------------------------- CRUD
\* Recipe.recipe_id is a unique column: a second row with it is refused.
UniqueViolation(recipe_id) == RecipesByRecipeId(recipe_id) # {}

\* POST /recipe/
create(recipe_id, enabled) ==
    /\ recipe_seq < MaxRecipes
    /\ IF UniqueViolation(recipe_id)
       THEN /\ last' = Call("create", recipe_id, 0, "IntegrityError", <<>>)
            /\ UNCHANGED <<Recipes, recipe_seq>>
       ELSE /\ recipe_seq' = recipe_seq + 1
            /\ Recipes' = Recipes \cup
                   {[id |-> recipe_seq + 1, recipe_id |-> recipe_id, enabled |-> enabled]}
            /\ last' = Call("create", recipe_id, recipe_seq + 1, "ok", <<>>)
    /\ UNCHANGED <<ErrorMessages, background_tasks>>

\* GET /recipe/recipe_id/{recipe_id} : get(recipe_id=...) of an existing recipe.
get_by_recipe_id(recipe_id) == First(RecipesByRecipeId(recipe_id))

\* PUT /recipe/id/{id} : filter(id=id).update(...), then get(id=id).
\* Of the recipe's columns the model keeps enabled.
update_by_id(id, enabled) ==
    /\ Recipes' = {IF r.id = id THEN [r EXCEPT !.enabled = enabled] ELSE r : r \in Recipes}
    /\ last' = Call("update_by_id", None, id,
                    IF RecipesById(id) = {} THEN "DoesNotExist" ELSE "ok", <<>>)
    /\ UNCHANGED <<recipe_seq, ErrorMessages, background_tasks>>

\* PUT /recipe/recipe_id/{recipe_id}
update_by_recipe_id(recipe_id, enabled) ==
    /\ Recipes' = {IF r.recipe_id = recipe_id THEN [r EXCEPT !.enabled = enabled] ELSE r :
                      r \in Recipes}
    /\ last' = Call("update_by_recipe_id", recipe_id, 0,
                    IF RecipesByRecipeId(recipe_id) = {} THEN "DoesNotExist" ELSE "ok", <<>>)
    /\ UNCHANGED <<recipe_seq, ErrorMessages, background_tasks>>

\* Mutant: the delete is not narrowed to the id.
delete_by_id_All(id) ==
    /\ Recipes' = {}
    /\ last' = Call("delete_by_id", None, id,
                    IF RecipesById(id) = {} THEN "404" ELSE "ok", <<>>)
    /\ UNCHANGED <<recipe_seq, ErrorMessages, background_tasks>>

\* DELETE /recipe/id/{id} : 404 when nothing was deleted.
delete_by_id(id) ==
    /\ Recipes' = Recipes \ RecipesById(id)
    /\ last' = Call("delete_by_id", None, id,
                    IF RecipesById(id) = {} THEN "404" ELSE "ok", <<>>)
    /\ UNCHANGED <<recipe_seq, ErrorMessages, background_tasks>>

\* DELETE /recipe/recipe_id/{recipe_id}
delete_by_recipe_id(recipe_id) ==
    /\ Recipes' = Recipes \ RecipesByRecipeId(recipe_id)
    /\ last' = Call("delete_by_recipe_id", recipe_id, 0,
                    IF RecipesByRecipeId(recipe_id) = {} THEN "404" ELSE "ok", <<>>)
    /\ UNCHANGED <<recipe_seq, ErrorMessages, background_tasks>>

\* ------------------------------------------------------------ chat messages
\* send_msg.recipe_error_msg(recipe_id, error_message.id, error_dict)
recipe_error_msg(recipe_id, id, error_dict) ==
    [kind |-> "recipe_error_msg", recipe_id |-> recipe_id, id |-> id,
     error_dict |-> error_dict]

\* bot.SlackBot.post_ephemeral_message(user_id, blocks, channel=channel, ...)
post_ephemeral_message(user_id, channel, recipe_id) ==
    [kind |-> "ephemeral", user_id |-> user_id, channel |-> channel,
     recipe_id |-> recipe_id]

\* send_msg.deny_trust_msg(error_object)
deny_trust_msg(id) == [kind |-> "deny_trust_msg", id |-> id]

\* send_msg.update_trust_success_msg(error_object)
update_trust_success_msg(id) == [kind |-> "update_trust_success_msg", id |-> id]

\* send_msg.update_trust_error_msg(msg, error_object)
update_trust_error_msg(msg, id) ==
    [kind |-> "update_trust_error_msg", msg |-> msg, id |-> id]

\* send_msg.trust_diff_msg(error_msg, error_object)
trust_diff_msg(msg, id) == [kind |-> "trust_diff_msg", msg |-> msg, id |-> id]

\* ---------------------------------------------------------------- workflow
\* Mutant: the disable step of recipe_error is left out.
recipe_error_disable_Skipped(recipe_id) == Recipes

\* Mutant: the recipe that errored is removed from the table.
recipe_error_disable_Deletes(recipe_id) == Recipes \ RecipesByRecipeId(recipe_id)

\* The disable step of recipe_error: first(), enabled = False, save().
\* first() gives None for a missing recipe and the assignment raises.
recipe_error_disable(recipe_id) ==
    IF RecipesByRecipeId(recipe_id) = {}
    THEN Recipes
    ELSE SaveEnabled(Recipes, First(RecipesByRecipeId(recipe_id)), FALSE)

\* Mutant: the recipe is looked up first and a missing one ends the call.
recipe_error_LookupFirst(recipe_id, error, results) ==
    /\ Len(ErrorMessages) < MaxErrors
    /\ IF RecipesByRecipeId(recipe_id) = {}
       THEN /\ last' = Call("recipe_error", recipe_id, 0, "AttributeError", <<>>)
            /\ UNCHANGED <<Recipes, ErrorMessages>>
       ELSE LET id == Len(ErrorMessages) + 1
                error_dict == error_dict_of(recipe_id, error)
                sent == <<recipe_error_msg(recipe_id, id, error_dict)>>
            IN  /\ ErrorMessages' =
                       UpdateHandles(Append(ErrorMessages, NewErrorMessage(recipe_id)),
                                     id, results)
                /\ Recipes' = recipe_error_disable(recipe_id)
                /\ last' = Call("recipe_error", recipe_id, id, "ok", sent)
    /\ UNCHANGED <<recipe_seq, background_tasks>>

\* POST /recipe/error
recipe_error(recipe_id, error, results) ==
    /\ Len(ErrorMessages) < MaxErrors
    /\ LET id == Len(ErrorMessages) + 1
           error_dict == error_dict_of(recipe_id, error)
           sent == <<recipe_error_msg(recipe_id, id, error_dict)>>
       IN  /\ ErrorMessages' =
                  UpdateHandles(Append(ErrorMessages, NewErrorMessage(recipe_id)),
                                id, results)
           /\ Recipes' = recipe_error_disable(recipe_id)
           /\ last' = Call("recipe_error", recipe_id, id,
                           IF RecipesByRecipeId(recipe_id) = {}
                           THEN "AttributeError" ELSE "ok", sent)
    /\ UNCHANGED <<recipe_seq, background_tasks>>

\* The arguments recipe_trust_update hands to recipe_runner.main.
trust_task(recipe_id, id) ==
    <<"--recipe-identifier", recipe_id, "--action", "trust", "--error_id", id>>

\* background_tasks.add_task(recipe_runner.main, [...]) of recipe_trust_update.
recipe_trust_update_dispatch(recipe_id, id) ==
    background_tasks (+) SetToBag({trust_task(recipe_id, id)})

\* Mutant: the enable is left to the success callback.
recipe_trust_update_enable_Deferred(recipe_object) == Recipes

\* recipe_object.enabled = True; save() of recipe_trust_update.
recipe_trust_update_enable(recipe_object) ==
    SaveEnabled(Recipes, recipe_object, TRUE)

\* Mutant: the missing-recipe branch queues the trust action all the same.
recipe_trust_update_missing_Dispatches(recipe_id, id, user_id, channel) ==
    /\ last' = CallBy(Call("recipe_trust_update", recipe_id, id, "ok",
                           <<post_ephemeral_message(user_id, channel, recipe_id)>>),
                      user_id, channel)
    /\ background_tasks' = recipe_trust_update_dispatch(recipe_id, id)
    /\ UNCHANGED Recipes

\* The else branch of recipe_trust_update: the recipe is missing, the
\* requesting user gets an ephemeral notice and the handler returns None.
recipe_trust_update_missing(recipe_id, id, user_id, channel) ==
    /\ last' = CallBy(Call("recipe_trust_update", recipe_id, id, "ok",
                           <<post_ephemeral_message(user_id, channel, recipe_id)>>),
                      user_id, channel)
    /\ UNCHANGED <<Recipes, background_tasks>>

\* POST /recipe/trust/update
recipe_trust_update(id, user_id, channel) ==
    /\ IF GetOutcome(ErrorIdsById(id)) # "ok"
       THEN /\ last' = CallBy(Call("recipe_trust_update", None, id,
                                   GetOutcome(ErrorIdsById(id)), <<>>),
                              user_id, channel)
            /\ UNCHANGED <<Recipes, background_tasks>>
       ELSE LET error_object == ErrorMessages[id]
                found == RecipesByRecipeId(error_object.recipe_id)
            IN  IF found # {}
                THEN /\ BagCardinality(background_tasks) < MaxTasks
                     /\ background_tasks' =
                            recipe_trust_update_dispatch(error_object.recipe_id, id)
                     /\ Recipes' = recipe_trust_update_enable(First(found))
                     /\ last' = CallBy(Call("recipe_trust_update",
                                            error_object.recipe_id, id, "ok", <<>>),
                                       user_id, channel)
                ELSE recipe_trust_update_missing(error_object.recipe_id, id,
                                                 user_id, channel)
    /\ UNCHANGED <<recipe_seq, ErrorMessages>>

\* Mutant: the denial disables the recipe of the error.
recipe_trust_deny_Disables(id) ==
    /\ last' = Call("recipe_trust_deny",
                    IF GetOutcome(ErrorIdsById(id)) = "ok"
                    THEN ErrorMessages[id].recipe_id ELSE None,
                    id, GetOutcome(ErrorIdsById(id)),
                    IF GetOutcome(ErrorIdsById(id)) = "ok"
                    THEN <<deny_trust_msg(id)>> ELSE <<>>)
    /\ Recipes' = IF GetOutcome(ErrorIdsById(id)) = "ok"
                  THEN {IF r.recipe_id = ErrorMessages[id].recipe_id
                        THEN [r EXCEPT !.enabled = FALSE] ELSE r : r \in Recipes}
                  ELSE Recipes
    /\ UNCHANGED <<recipe_seq, ErrorMessages, background_tasks>>

\* Mutant: the denial forgets the handles of the message it edited.
recipe_trust_deny_ClearsHandles(id) ==
    /\ last' = Call("recipe_trust_deny",
                    IF GetOutcome(ErrorIdsById(id)) = "ok"
                    THEN ErrorMessages[id].recipe_id ELSE None,
                    id, GetOutcome(ErrorIdsById(id)),
                    IF GetOutcome(ErrorIdsById(id)) = "ok"
                    THEN <<deny_trust_msg(id)>> ELSE <<>>)
    /\ ErrorMessages' = IF GetOutcome(ErrorIdsById(id)) = "ok"
                        THEN [ErrorMessages EXCEPT ![id].slack_ts = None,
                                                   ![id].slack_channel = None]
                        ELSE ErrorMessages
    /\ UNCHANGED <<Recipes, recipe_seq, background_tasks>>

\* POST /recipe/trust/deny
recipe_trust_deny(id) ==
    /\ last' = Call("recipe_trust_deny",
                    IF GetOutcome(ErrorIdsById(id)) = "ok"
                    THEN ErrorMessages[id].recipe_id ELSE None,
                    id, GetOutcome(ErrorIdsById(id)),
                    IF GetOutcome(ErrorIdsById(id)) = "ok"
                    THEN <<deny_trust_msg(id)>> ELSE <<>>)
    /\ UNCHANGED <<Recipes, recipe_seq, ErrorMessages, background_tasks>>

\* Mutant: the success callback is the one that enables the recipe.
recipe_trust_update_success_Enables(recipe_id, msg, error_id) ==
    /\ last' = Call("recipe_trust_update_success",
                    IF GetOutcome(ErrorIdsById(error_id)) = "ok"
                    THEN ErrorMessages[error_id].recipe_id ELSE None,
                    error_id,
                    GetOutcome(ErrorIdsById(error_id)),
                    IF GetOutcome(ErrorIdsById(error_id)) = "ok"
                    THEN <<update_trust_success_msg(error_id)>> ELSE <<>>)
    /\ Recipes' = {IF r.recipe_id = recipe_id
                   THEN [r EXCEPT !.enabled = TRUE] ELSE r : r \in Recipes}
    /\ UNCHANGED <<recipe_seq, ErrorMessages>>

\* Mutant: the success notice is sent whether or not the error was found.
recipe_trust_update_success_NoLookup(recipe_id, msg, error_id) ==
    /\ last' = Call("recipe_trust_update_success",
                    IF GetOutcome(ErrorIdsById(error_id)) = "ok"
                    THEN ErrorMessages[error_id].recipe_id ELSE None,
                    error_id,
                    GetOutcome(ErrorIdsById(error_id)),
                    <<update_trust_success_msg(error_id)>>)
    /\ UNCHANGED <<Recipes, recipe_seq, ErrorMessages>>

\* POST /recipe/trust/update/success
recipe_trust_update_success(recipe_id, msg, error_id) ==
    /\ last' = Call("recipe_trust_update_success",
                    IF GetOutcome(ErrorIdsById(error_id)) = "ok"
                    THEN ErrorMessages[error_id].recipe_id ELSE None,
                    error_id,
                    GetOutcome(ErrorIdsById(error_id)),
                    IF GetOutcome(ErrorIdsById(error_id)) = "ok"
                    THEN <<update_trust_success_msg(error_id)>> ELSE <<>>)
    /\ UNCHANGED <<Recipes, recipe_seq, ErrorMessages>>

\* Mutant: the failed callback writes the flag of the request.
recipe_trust_update_failed_disable_Enables(recipe_id) ==
    IF RecipesByRecipeId(recipe_id) = {}
    THEN Recipes
    ELSE SaveEnabled(Recipes, First(RecipesByRecipeId(recipe_id)), TRUE)

\* The disable step of recipe_trust_update_failed.
recipe_trust_update_failed_disable(recipe_id) ==
    IF RecipesByRecipeId(recipe_id) = {}
    THEN Recipes
    ELSE SaveEnabled(Recipes, First(RecipesByRecipeId(recipe_id)), FALSE)

\* POST /recipe/trust/update/failed : get(recipe_id=...) wants exactly one row.
recipe_trust_update_failed(recipe_id, msg, results) ==
    /\ IF GetOutcome(ErrorIdsByRecipeId(recipe_id)) # "ok"
       THEN /\ last' = Call("recipe_trust_update_failed", recipe_id, 0,
                            GetOutcome(ErrorIdsByRecipeId(recipe_id)), <<>>)
            /\ UNCHANGED <<Recipes, ErrorMessages>>
       ELSE LET id == CHOOSE i \in ErrorIdsByRecipeId(recipe_id) : TRUE
            IN  /\ ErrorMessages' = UpdateHandles(ErrorMessages, id, results)
                /\ Recipes' = recipe_trust_update_failed_disable(recipe_id)
                /\ last' = Call("recipe_trust_update_failed", recipe_id, id,
                                IF RecipesByRecipeId(recipe_id) = {}
                                THEN "AttributeError" ELSE "ok",
                                <<update_trust_error_msg(msg, id)>>)
    /\ UNCHANGED recipe_seq

\* Mutant: the flag is written the wrong way round.
reciepe_trust_verify_failed_disable_Enables(recipe_id) ==
    IF RecipesByRecipeId(recipe_id) = {}
    THEN Recipes
    ELSE SaveEnabled(Recipes, First(RecipesByRecipeId(recipe_id)), TRUE)

\* The disable step of reciepe_trust_verify_failed.
reciepe_trust_verify_failed_disable(recipe_id) ==
    IF RecipesByRecipeId(recipe_id) = {}
    THEN Recipes
    ELSE SaveEnabled(Recipes, First(RecipesByRecipeId(recipe_id)), FALSE)

\* POST /recipe/trust/verify/failed : the handles the post returns are dropped.
reciepe_trust_verify_failed(recipe_id, error_msg) ==
    /\ Len(ErrorMessages) < MaxErrors
    /\ LET id == Len(ErrorMessages) + 1
       IN  /\ ErrorMessages' = Append(ErrorMessages, NewErrorMessage(recipe_id))
           /\ Recipes' = reciepe_trust_verify_failed_disable(recipe_id)
           /\ last' = Call("reciepe_trust_verify_failed", recipe_id, id,
                           IF RecipesByRecipeId(recipe_id) = {}
                           THEN "AttributeError" ELSE "ok",
                           <<trust_diff_msg(error_msg, id)>>)
    /\ UNCHANGED <<recipe_seq, background_tasks>>

\* recipe_runner.main run as a background task: the trust action ends and
\* reports back through the success or the failed callback.
recipe_runner_main ==
    \E task \in BagToSet(background_tasks) :
        /\ background_tasks' = background_tasks (-) SetToBag({task})
        /\ \E msg \in Msgs :
              \/ recipe_trust_update_success(task[2], msg, task[6])
              \/ \E results \in SlackResults :
                    recipe_trust_update_failed(task[2], msg, results)

\* ------------------------------------------------------------------- Next
RecipeRowIds == 1..MaxRecipes
ErrorRowIds == 1..MaxErrors

Next ==
    \/ \E r \in RecipeIds, e \in BOOLEAN : create(r, e) /\ UNCHANGED async_vars
    \/ \E i \in RecipeRowIds, e \in BOOLEAN :
          update_by_id(i, e) /\ UNCHANGED async_vars
    \/ \E r \in RecipeIds, e \in BOOLEAN :
          update_by_recipe_id(r, e) /\ UNCHANGED async_vars
    \/ \E i \in RecipeRowIds : delete_by_id(i) /\ UNCHANGED async_vars
    \/ \E r \in RecipeIds : delete_by_recipe_id(r) /\ UNCHANGED async_vars
    \/ \E r \in RecipeIds, t \in ErrorTexts, results \in SlackResults :
          recipe_error(r, t, results) /\ UNCHANGED async_vars
    \/ \E i \in ErrorRowIds, u \in Users, c \in Channels :
          recipe_trust_update(i, u, c) /\ UNCHANGED async_vars
    \/ \E i \in ErrorRowIds : recipe_trust_deny(i) /\ UNCHANGED async_vars
    \/ \E r \in RecipeIds, m \in Msgs, i \in ErrorRowIds :
          /\ recipe_trust_update_success(r, m, i)
          /\ UNCHANGED <<background_tasks, suspended, trust_failed>>
    \/ \E r \in RecipeIds, m \in Msgs, results \in SlackResults :
          /\ recipe_trust_update_failed(r, m, results)
          /\ UNCHANGED <<background_tasks, suspended, trust_failed>>
    \/ \E r \in RecipeIds, m \in Msgs :
          reciepe_trust_verify_failed(r, m) /\ UNCHANGED async_vars
    \/ recipe_runner_main /\ UNCHANGED async_vars

\* Every handler runs from its first line to its return without another
\* one in between.
Spec == Init /\ [][Next]_vars

\* ------------------------------------------------ handlers at their awaits
\* A handler is a coroutine: at each await it is suspended and the handlers
\* of other requests run.  At most this many invocations wait at a time.
MaxSuspended == 1

\* What the interleaved handlers are called with.
AsyncRecipeIds == {"R1"}
AsyncErrorTexts == {<<"a">>}
AsyncUsers == {"U1"}

\* A suspended invocation: its handler, the await it waits at, and its locals
\* (found holds recipe_object once it is read, arg the remaining arguments).
Invocation(op, pc, recipe_id, id, found, arg) ==
    [op |-> op, pc |-> pc, recipe_id |-> recipe_id, id |-> id, found |-> found,
     arg |-> arg]

\* The invocation moves on to its next await.
Resume(inv, pc, found) ==
    (suspended \ {inv}) \cup {[inv EXCEPT !.pc = pc, !.found = found]}

\* Mutant: save() writes only when the row is still as it was read.
SaveObject_IfUnchanged(recipes, recipe_object, value) ==
    {IF r = recipe_object THEN [recipe_object EXCEPT !.enabled = value] ELSE r :
        r \in recipes}

\* recipe_object.enabled = <value>; await recipe_object.save() of an object
\* read at an earlier await: UPDATE ... WHERE id = recipe_object.id.
SaveObject(recipes, recipe_object, value) ==
    {IF r.id = recipe_object.id THEN [recipe_object EXCEPT !.enabled = value] ELSE r :
        r \in recipes}

\* Mutant: the new error message and the disabled flag are written together.
recipe_error_create_Disables(recipe_id, error) ==
    /\ Cardinality(suspended) < MaxSuspended
    /\ Len(ErrorMessages) < MaxErrors
    /\ ErrorMessages' = Append(ErrorMessages, NewErrorMessage(recipe_id))
    /\ Recipes' = recipe_error_disable(recipe_id)
    /\ suspended' = suspended \cup
           {Invocation("recipe_error", "created", recipe_id, Len(ErrorMessages) + 1,
                       {}, error)}
    /\ UNCHANGED <<recipe_seq, background_tasks, last, trust_failed>>

\* recipe_error up to its first await: models.ErrorMessages.create(...).
recipe_error_create(recipe_id, error) ==
    /\ Cardinality(suspended) < MaxSuspended
    /\ Len(ErrorMessages) < MaxErrors
    /\ ErrorMessages' = Append(ErrorMessages, NewErrorMessage(recipe_id))
    /\ suspended' = suspended \cup
           {Invocation("recipe_error", "created", recipe_id, Len(ErrorMessages) + 1,
                       {}, error)}
    /\ UNCHANGED <<Recipes, recipe_seq, background_tasks, last, trust_failed>>

\* await send_msg.recipe_error_msg(...)
recipe_error_send(inv) ==
    /\ inv.op = "recipe_error" /\ inv.pc = "created"
    /\ suspended' = Resume(inv, "sent", {})
    /\ UNCHANGED <<Recipes, recipe_seq, ErrorMessages, background_tasks, last,
                   trust_failed>>

\* await models.ErrorMessages.update_or_create(updates, id=error_message.id)
recipe_error_store(inv, results) ==
    /\ inv.op = "recipe_error" /\ inv.pc = "sent"
    /\ ErrorMessages' = UpdateHandles(ErrorMessages, inv.id, results)
    /\ suspended' = Resume(inv, "stored", {})
    /\ UNCHANGED <<Recipes, recipe_seq, background_tasks, last, trust_failed>>

\* await models.Recipes.filter(recipe_id=recipe_id).first(); with None the
\* assignment that follows raises at once.
recipe_error_read(inv) ==
    /\ inv.op = "recipe_error" /\ inv.pc = "stored"
    /\ IF RecipesByRecipeId(inv.recipe_id) = {}
       THEN /\ suspended' = suspended \ {inv}
            /\ last' = Call("recipe_error", inv.recipe_id, inv.id, "AttributeError",
                            <<recipe_error_msg(inv.recipe_id, inv.id,
                                               error_dict_of(inv.recipe_id, inv.arg))>>)
       ELSE /\ suspended' = Resume(inv, "read", {First(RecipesByRecipeId(inv.recipe_id))})
            /\ UNCHANGED last
    /\ UNCHANGED <<Recipes, recipe_seq, ErrorMessages, background_tasks, trust_failed>>

\* recipe_object.enabled = False; await recipe_object.save(); return
recipe_error_save(inv) ==
    /\ inv.op = "recipe_error" /\ inv.pc = "read"
    /\ Recipes' = SaveObject(Recipes, First(inv.found), FALSE)
    /\ suspended' = suspended \ {inv}
    /\ last' = Call("recipe_error", inv.recipe_id, inv.id, "ok",
                    <<recipe_error_msg(inv.recipe_id, inv.id,
                                       error_dict_of(inv.recipe_id, inv.arg))>>)
    /\ UNCHANGED <<recipe_seq, ErrorMessages, background_tasks, trust_failed>>

\* recipe_trust_update up to its first await: models.ErrorMessages.get(id=...).
recipe_trust_update_get(id, user_id, channel) ==
    /\ Cardinality(suspended) < MaxSuspended
    /\ IF GetOutcome(ErrorIdsById(id)) # "ok"
       THEN /\ last' = CallBy(Call("recipe_trust_update", None, id,
                                   GetOutcome(ErrorIdsById(id)), <<>>),
                              user_id, channel)
            /\ UNCHANGED suspended
       ELSE /\ suspended' = suspended \cup
                   {Invocation("recipe_trust_update", "got",
                               ErrorMessages[id].recipe_id, id, {},
                               <<user_id, channel>>)}
            /\ UNCHANGED last
    /\ UNCHANGED <<Recipes, recipe_seq, ErrorMessages, background_tasks, trust_failed>>

\* await models.Recipes.filter(...).first(); when it gives a recipe the task
\* is queued and the handler waits in recipe_object.save().
recipe_trust_update_read(inv) ==
    /\ inv.op = "recipe_trust_update" /\ inv.pc = "got"
    /\ IF RecipesByRecipeId(inv.recipe_id) = {}
       THEN /\ suspended' = Resume(inv, "missing", {})
            /\ UNCHANGED background_tasks
       ELSE /\ BagCardinality(background_tasks) < MaxTasks
            /\ background_tasks' = recipe_trust_update_dispatch(inv.recipe_id, inv.id)
            /\ suspended' = Resume(inv, "queued",
                                   {First(RecipesByRecipeId(inv.recipe_id))})
    /\ UNCHANGED <<Recipes, recipe_seq, ErrorMessages, last, trust_failed>>

\* The write of recipe_object.save() with enabled = True, and the return.
recipe_trust_update_save(inv) ==
    /\ inv.op = "recipe_trust_update" /\ inv.pc = "queued"
    /\ Recipes' = SaveObject(Recipes, First(inv.found), TRUE)
    /\ suspended' = suspended \ {inv}
    /\ last' = CallBy(Call("recipe_trust_update", inv.recipe_id, inv.id, "ok", <<>>),
                      inv.arg[1], inv.arg[2])
    /\ UNCHANGED <<recipe_seq, ErrorMessages, background_tasks, trust_failed>>

\* The else branch: await build_msg.missing_recipe_msg, post_ephemeral_message.
recipe_trust_update_notify(inv) ==
    /\ inv.op = "recipe_trust_update" /\ inv.pc = "missing"
    /\ suspended' = suspended \ {inv}
    /\ last' = CallBy(Call("recipe_trust_update", inv.recipe_id, inv.id, "ok",
                           <<post_ephemeral_message(inv.arg[1], inv.arg[2],
                                                    inv.recipe_id)>>),
                      inv.arg[1], inv.arg[2])
    /\ UNCHANGED <<Recipes, recipe_seq, ErrorMessages, background_tasks, trust_failed>>

\* The tasks of the recipe that are queued or running.
TasksInFlight(tasks, recipe_id) ==
    BagCardinality([task \in {t \in BagToSet(tasks) : t[2] = recipe_id} |->
                       CopiesIn(task, tasks)])

\* The requests that queued the task and have not returned: a background
\* task starts after the response of the request that queued it.
Unreturned(task) ==
    {inv \in suspended : /\ inv.op = "recipe_trust_update"
                         /\ inv.pc = "queued"
                         /\ trust_task(inv.recipe_id, inv.id) = task}

\* recipe_runner.main among suspended handlers: the outcome it reports is
\* noted with the number of the recipe's trust actions still in flight.
recipe_runner_main_reports ==
    \E task \in BagToSet(background_tasks) :
        /\ CopiesIn(task, background_tasks) > Cardinality(Unreturned(task))
        /\ background_tasks' = background_tasks (-) SetToBag({task})
        /\ \E msg \in Msgs :
              \/ /\ recipe_trust_update_success(task[2], msg, task[6])
                 /\ trust_failed' = {f \in trust_failed : f.recipe_id # task[2]}
              \/ \E results \in SlackResults :
                    /\ recipe_trust_update_failed(task[2], msg, results)
                    /\ trust_failed' =
                           {f \in trust_failed : f.recipe_id # task[2]} \cup
                           {[recipe_id |-> task[2],
                             in_flight |-> TasksInFlight(background_tasks', task[2]),
                             result |-> last'.result]}
        /\ UNCHANGED suspended

NextAsync ==
    \/ \E r \in AsyncRecipeIds, e \in BOOLEAN : create(r, e) /\ UNCHANGED async_vars
    \/ \E r \in AsyncRecipeIds, t \in AsyncErrorTexts : recipe_error_create(r, t)
    \/ \E inv \in suspended : recipe_error_send(inv)
    \/ \E inv \in suspended, results \in SlackResults : recipe_error_store(inv, results)
    \/ \E inv \in suspended : recipe_error_read(inv)
    \/ \E inv \in suspended : recipe_error_save(inv)
    \/ \E i \in ErrorRowIds, u \in AsyncUsers, c \in Channels :
          recipe_trust_update_get(i, u, c)
    \/ \E inv \in suspended : recipe_trust_update_read(inv)
    \/ \E inv \in suspended : recipe_trust_update_save(inv)
    \/ \E inv \in suspended : recipe_trust_update_notify(inv)
    \/ \E i \in ErrorRowIds : recipe_trust_deny(i) /\ UNCHANGED async_vars
    \/ recipe_runner_main_reports

\* The handlers interleave at their awaits.
SpecAsync == Init /\ [][NextAsync]_vars

\* --------------------------------------------- replaced notifications
\* The post that replaces a notification returns a timestamp of its own.
ReplacementTs == {"ts2"}
ReplacementResults == [ts : ReplacementTs, channel : SlackChannels]

\* The workflow callbacks, the failed callback storing the handles of the
\* replacement it posted.
NextHandles ==
    \/ \E r \in RecipeIds, e \in BOOLEAN : create(r, e) /\ UNCHANGED async_vars
    \/ \E r \in RecipeIds, t \in AsyncErrorTexts, results \in SlackResults :
          recipe_error(r, t, results) /\ UNCHANGED async_vars
    \/ \E i \in ErrorRowIds, u \in AsyncUsers, c \in Channels :
          recipe_trust_update(i, u, c) /\ UNCHANGED async_vars
    \/ \E i \in ErrorRowIds : recipe_trust_deny(i) /\ UNCHANGED async_vars
    \/ \E r \in RecipeIds, m \in Msgs, i \in ErrorRowIds :
          /\ recipe_trust_update_success(r, m, i)
          /\ UNCHANGED <<background_tasks, suspended, trust_failed>>
    \/ \E r \in RecipeIds, m \in Msgs, results \in ReplacementResults :
          /\ recipe_trust_update_failed(r, m, results)
          /\ UNCHANGED <<background_tasks, suspended, trust_failed>>
    \/ \E r \in RecipeIds, m \in Msgs :
          reciepe_trust_verify_failed(r, m) /\ UNCHANGED async_vars
    \/ recipe_runner_main /\ UNCHANGED async_vars

SpecHandles == Init /\ [][NextHandles]_vars

\* ------------------------------------------------- the error text, parsed
\* The error texts: every string of these characters up to this length.
MaxTextLen == 7
TextChars == {"a", "b", ":", " "}
Texts == UNION {[1..n -> TextChars] : n \in 0..MaxTextLen}

\* recipe_error is called with a recipe_id and an error text.
InitParse ==
    /\ Recipes = {}
    /\ recipe_seq = 0
    /\ ErrorMessages = <<>>
    /\ background_tasks = EmptyBag
    /\ suspended = {}
    /\ trust_failed = {}
    /\ \E r \in RecipeIds, t \in Texts :
          last = [op |-> "error_dict", recipe_id |-> r, error |-> t,
                  parsed |-> FALSE, error_dict |-> PyStr(<<>>)]

\* The try/except of recipe_error: error_dict is what goes to recipe_error_msg.
parse_error ==
    /\ ~last.parsed
    /\ last' = [last EXCEPT !.parsed = TRUE,
                            !.error_dict = error_dict_of(last.recipe_id, last.error)]
    /\ UNCHANGED <<Recipes, recipe_seq, ErrorMessages, background_tasks, suspended,
                   trust_failed>>

NextParse == parse_error

SpecParse == InitParse /\ [][NextParse]_vars

\* ================================================================ claims
\* A trust action for the recipe has been dispatched and has not reported back.
PendingTrust(recipe_id) ==
    \E task \in BagToSet(background_tasks) : task[2] = recipe_id

\* The endpoints that may turn enabled from false to true.
Enablers == {"recipe_trust_update", "update_by_id", "update_by_recipe_id"}

\* The callbacks that end by disabling the recipe.
Disablers ==
    {"recipe_error", "recipe_trust_update_failed", "reciepe_trust_verify_failed"}

C2_FailedCallbackDisables ==
    [][ \A r \in RecipeIds :
           (/\ PendingTrust(r)
            /\ RecipesByRecipeId(r) # {}
            /\ ErrorIdsByRecipeId(r) # {}
            /\ last'.op = "recipe_trust_update_failed"
            /\ last'.recipe_id = r)
           => \A rec \in Recipes' : rec.recipe_id = r => ~rec.enabled
      ]_vars

\* C3 (as stated): report-error for a recipe_id without a Recipe record still
\* sends the notification and completes without raising.
C3_ReportErrorToleratesMissingRecipe ==
    (last.op = "recipe_error" /\ RecipesByRecipeId(last.recipe_id) = {})
    => /\ last.result = "ok"
       /\ Len(last.sent) = 1

\* C4: a trust-update request for an existing ErrorMessage whose recipe_id
\* matches no Recipe sends one ephemeral notice to the requesting user in
\* the requesting channel, changes no Recipe and no ErrorMessage record and
\* dispatches no background action.
C4_MissingRecipeRequestOnlyNotifies ==
    [][ \A i \in ErrorRowIds, u \in Users, c \in Channels :
           (/\ last'.op = "recipe_trust_update"
            /\ last'.id = i
            /\ last'.caller = <<u, c>>
            /\ i <= Len(ErrorMessages)
            /\ RecipesByRecipeId(ErrorMessages[i].recipe_id) = {})
           => /\ last'.sent = <<[kind |-> "ephemeral", user_id |-> u, channel |-> c,
                                 recipe_id |-> ErrorMessages[i].recipe_id]>>
              /\ Recipes' = Recipes
              /\ ErrorMessages' = ErrorMessages
              /\ background_tasks' = background_tasks
      ]_vars

\* C4 witness: the notice has gone out for an error whose recipe is missing,
\* while another recipe and a trust action in flight are there to be kept.
C4_Witness ==
    /\ last.op = "recipe_trust_update"
    /\ last.result = "ok"
    /\ Len(last.sent) = 1
    /\ last.sent[1].kind = "ephemeral"
    /\ RecipesByRecipeId(last.recipe_id) = {}
    /\ Recipes # {}
    /\ background_tasks # EmptyBag

\* C5: a trust-update request for an ErrorMessage whose recipe exists leaves
\* the recipe enabled and adds exactly one background action, with arguments
\* --recipe-identifier <recipe_id> --action trust --error_id <id>; that
\* action is still in flight, its outcome not yet reported, when the request
\* has returned.
C5_RequestEnablesAndDispatchesOnce ==
    [][ \A i \in ErrorRowIds :
           (/\ last'.op = "recipe_trust_update"
            /\ last'.id = i
            /\ i <= Len(ErrorMessages)
            /\ RecipesByRecipeId(ErrorMessages[i].recipe_id) # {})
           => /\ \A rec \in Recipes' :
                    rec.recipe_id = ErrorMessages[i].recipe_id => rec.enabled
              /\ RecipesByRecipeId(ErrorMessages[i].recipe_id)' # {}
              /\ background_tasks' = background_tasks (+)
                    SetToBag({<<"--recipe-identifier", ErrorMessages[i].recipe_id,
                                "--action", "trust", "--error_id", i>>})
              /\ last'.result = "ok"
      ]_vars

\* C5 witness: a request has returned for a recipe that report-error had
\* disabled; the recipe is enabled and its trust action is in flight.
C5_Witness ==
    /\ last.op = "recipe_trust_update"
    /\ last.result = "ok"
    /\ last.sent = <<>>
    /\ RecipesByRecipeId(last.recipe_id) # {}
    /\ get_by_recipe_id(last.recipe_id).enabled
    /\ BagIn(trust_task(last.recipe_id, last.id), background_tasks)

\* C6: right after a report-error callback for an existing recipe, fetching
\* the recipe by recipe_id shows enabled = false.
C6_ReportErrorDisables ==
    (last.op = "recipe_error" /\ RecipesByRecipeId(last.recipe_id) # {})
    => /\ last.result = "ok"
       /\ get_by_recipe_id(last.recipe_id).enabled = FALSE

\* C6 witness: report-error has completed for an existing recipe.
C6_Witness ==
    /\ last.op = "recipe_error"
    /\ last.result = "ok"
    /\ RecipesByRecipeId(last.recipe_id) # {}

\* C7 (as stated): trust-verify-failed has no precondition: for any
\* recipe_id it completes, having created one ErrorMessage for it, sent one
\* notification and left the recipe disabled.
C7_VerifyFailedHasNoPrecondition ==
    last.op = "reciepe_trust_verify_failed"
    => /\ last.result = "ok"
       /\ Len(last.sent) = 1
       /\ last.id = Len(ErrorMessages)
       /\ ErrorMessages[last.id].recipe_id = last.recipe_id
       /\ \A rec \in Recipes : rec.recipe_id = last.recipe_id => ~rec.enabled

\* C8 (as stated): right after a deny callback for an existing ErrorMessage
\* the recipe of that error is disabled, also when a trust update was
\* requested for the error before the denial (its action still in flight).
C8_DeniedRecipeIsDisabled ==
    (/\ last.op = "recipe_trust_deny"
     /\ last.result = "ok"
     /\ BagIn(trust_task(last.recipe_id, last.id), background_tasks))
    => \A rec \in Recipes : rec.recipe_id = last.recipe_id => ~rec.enabled

\* C8 (amended): the deny callback leaves the enabled flag of the error's
\* recipe as it found it: disabled stays disabled, and a recipe enabled by
\* an earlier trust-update request stays enabled.
C8_DenyKeepsEnabled ==
    [][ (last'.op = "recipe_trust_deny" /\ last'.result = "ok")
        => \A rec \in Recipes :
              rec.recipe_id = last'.recipe_id
              => \E after \in Recipes' :
                    after.recipe_id = rec.recipe_id /\ after.enabled = rec.enabled
      ]_vars

\* C8 witness: a denial has completed for an error whose trust update had
\* been requested, and the recipe is still enabled.
C8_Witness ==
    /\ last.op = "recipe_trust_deny"
    /\ last.result = "ok"
    /\ BagIn(trust_task(last.recipe_id, last.id), background_tasks)
    /\ \E rec \in Recipes : rec.recipe_id = last.recipe_id /\ rec.enabled

C10_SuccessOnlyNotifies ==
    [][ last'.op = "recipe_trust_update_success"
        => /\ Recipes' = Recipes
           /\ ErrorMessages' = ErrorMessages
           /\ last'.result = "ok"
                 => last'.sent =
                       <<[kind |-> "update_trust_success_msg", id |-> last'.id]>>
      ]_vars

\* C10 witness: success has been reported for an error whose recipe is
\* disabled, and the recipe is disabled still.
C10_Witness ==
    /\ last.op = "recipe_trust_update_success"
    /\ last.result = "ok"
    /\ Len(last.sent) = 1
    /\ \E rec \in Recipes : rec.recipe_id = last.recipe_id /\ ~rec.enabled

\* C11: nothing keeps the trust actions of one recipe apart.  A request that
\* finds its recipe queues its task however many trust actions of the recipe
\* are in flight, and the write it then waits for sets enabled = true
\* whatever was written to the recipe since the request read it; so the
\* recipe can be enabled after a failure was reported and acted on.
C11_RequestsNotSerialised ==
    [][ \A inv \in suspended \ suspended' :
          inv.op = "recipe_trust_update"
          => /\ (inv.pc = "got" /\ RecipesByRecipeId(inv.recipe_id) # {})
                   => /\ background_tasks' = background_tasks (+)
                             SetToBag({trust_task(inv.recipe_id, inv.id)})
                      /\ \E q \in suspended' : q.id = inv.id /\ q.pc = "queued"
             /\ inv.pc = "queued"
                   => /\ \A rec \in Recipes' :
                             rec.id = First(inv.found).id => rec.enabled
                      /\ last'.op = "recipe_trust_update"
                      /\ last'.result = "ok"
      ]_vars

\* C11 witness: the failure of a trust action was reported, and disabled
\* the recipe, while another trust action of the recipe was in flight; no
\* outcome has arrived since, the request that queued the other one has
\* written after the failure, and the recipe is enabled.
C11_Witness ==
    /\ last.op = "recipe_trust_update"
    /\ last.result = "ok"
    /\ last.sent = <<>>
    /\ \E f \in trust_failed :
          /\ f.recipe_id = last.recipe_id
          /\ f.result = "ok"
          /\ f.in_flight >= 1
          /\ TasksInFlight(background_tasks, f.recipe_id) = f.in_flight
    /\ \E rec \in Recipes : rec.recipe_id = last.recipe_id /\ rec.enabled

\* C12: in report-error the new ErrorMessage and the disabled flag are two
\* writes with awaits between them.  While the handler waits at any await
\* before its last write its ErrorMessage is in the table, and no step that
\* brings it there writes a Recipe: what the other callbacks see in between
\* is the recipe as it was.
C12_ErrorCreatedBeforeDisable ==
    [][ \A inv \in suspended' :
          inv.op = "recipe_error"
          => /\ inv.id \in 1..Len(ErrorMessages')
             /\ ErrorMessages'[inv.id].recipe_id = inv.recipe_id
             /\ inv \notin suspended => Recipes' = Recipes
      ]_vars

\* C12 witness: a deny callback has found the ErrorMessage of a report-error
\* call that is still waiting, and the recipe of the error is enabled.
C12_Witness ==
    /\ last.op = "recipe_trust_deny"
    /\ last.result = "ok"
    /\ \E inv \in suspended :
          /\ inv.op = "recipe_error"
          /\ inv.id = last.id
          /\ \E rec \in Recipes : rec.recipe_id = inv.recipe_id /\ rec.enabled

\* The correlation handles of an ErrorMessage row.
Handles(row) == <<row.slack_ts, row.slack_channel>>

\* C13: the handles of an ErrorMessage are null until a notification for it
\* was posted: a row that report-error creates carries the handles of the
\* notification the call posted, a row that verify-failed creates has none.
\* The handles of an existing row change only in a trust-update-failed
\* callback that found this row and posted the replacement; no other
\* callback changes them.
C13_HandlesOnlyFromErrorAndFailed ==
    [][ \A i \in 1..Len(ErrorMessages') :
          IF i <= Len(ErrorMessages)
          THEN Handles(ErrorMessages'[i]) # Handles(ErrorMessages[i])
               => /\ last'.op = "recipe_trust_update_failed"
                  /\ last'.id = i
                  /\ last'.sent = <<[kind |-> "update_trust_error_msg",
                                     msg |-> last'.sent[1].msg, id |-> i]>>
                  /\ ErrorMessages'[i].slack_ts # None
                  /\ ErrorMessages'[i].slack_channel # None
          ELSE /\ last'.op \in {"recipe_error", "reciepe_trust_verify_failed"}
               /\ last'.id = i
               /\ Len(last'.sent) = 1
               /\ last'.op = "recipe_error"
                     => /\ last'.sent[1].kind = "recipe_error_msg"
                        /\ last'.sent[1].id = i
                        /\ ErrorMessages'[i].slack_ts # None
                        /\ ErrorMessages'[i].slack_channel # None
               /\ last'.op = "reciepe_trust_verify_failed"
                     => Handles(ErrorMessages'[i]) = <<None, None>>
      ]_vars

\* C13 witness: a trust-update-failed callback has returned and its
\* ErrorMessage carries the handles of the replacement, while another
\* ErrorMessage keeps the handles report-error stored.
C13_Witness ==
    /\ last.op = "recipe_trust_update_failed"
    /\ last.result = "ok"
    /\ ErrorMessages[last.id].slack_ts \in ReplacementTs
    /\ \E i \in 1..Len(ErrorMessages) : ErrorMessages[i].slack_ts \in SlackTs

\* The six workflow callbacks, and the two of them that create an ErrorMessage.
WorkflowCallbacks ==
    {"recipe_error", "recipe_trust_update", "recipe_trust_deny",
     "recipe_trust_update_success", "recipe_trust_update_failed",
     "reciepe_trust_verify_failed"}

Creators == {"recipe_error", "reciepe_trust_verify_failed"}

\* C14: a workflow callback deletes no Recipe and no ErrorMessage: the
\* recipes keep their ids and recipe_ids, the ErrorMessages there keep their
\* place and recipe_id, and the table of ErrorMessages grows by exactly one
\* row in report-error and in trust-verify-failed and by none in the others.
C14_NoDeleteOneNewErrorMessage ==
    [][ last'.op \in WorkflowCallbacks
        => /\ {<<r.id, r.recipe_id>> : r \in Recipes'} =
                 {<<r.id, r.recipe_id>> : r \in Recipes}
           /\ Len(ErrorMessages') =
                 Len(ErrorMessages) + (IF last'.op \in Creators THEN 1 ELSE 0)
           /\ \A i \in 1..Len(ErrorMessages) :
                 ErrorMessages'[i].recipe_id = ErrorMessages[i].recipe_id
      ]_vars

\* C14 witness: trust-verify-failed has added the second ErrorMessage of a
\* recipe that is in the table.
C14_Witness ==
    /\ last.op = "reciepe_trust_verify_failed"
    /\ last.id = 2
    /\ Len(ErrorMessages) = 2
    /\ ErrorMessages[1].recipe_id = last.recipe_id
    /\ RecipesByRecipeId(last.recipe_id) # {}

\* The text has a ": " in it.
HasSeparator(s) == \E i \in 1..(Len(s) - 1) : s[i] = ":" /\ s[i + 1] = " "

\* C15 (as stated): for an error text without ": ", the empty text included,
\* what goes to the notification is the flat mapping { recipe_id: error }.
C15_NoSeparatorGivesFlatMapping ==
    (last.op = "error_dict" /\ last.parsed /\ ~HasSeparator(last.error))
    => last.error_dict = PyDict(Chars[last.recipe_id], PyStr(last.error))

\* The tokens put together again with ": " between them.
RECURSIVE Joined(_, _)
Joined(tokens, i) ==
    IF i = Len(tokens) THEN tokens[i]
    ELSE tokens[i] \o <<":", " ">> \o Joined(tokens, i + 1)

\* { t_i: { t_i+1: ... { t_n-1: t_n } } }
RECURSIVE Nested(_, _)
Nested(tokens, i) ==
    IF i = Len(tokens) THEN PyStr(tokens[i])
    ELSE PyDict(tokens[i], Nested(tokens, i + 1))

\* The keys of a nested mapping, outermost first.
RECURSIVE KeysOf(_)
KeysOf(d) == IF "key" \in DOMAIN d THEN <<d.key>> \o KeysOf(d.value) ELSE <<>>

\* The value under the innermost key.
RECURSIVE Innermost(_)
Innermost(d) == IF "key" \in DOMAIN d THEN Innermost(d.value) ELSE d

\* C16: an error text with at least one ": " is cut into the tokens
\* t1 .. tn between the separators, n >= 2, and what goes to the
\* notification is { t1: { t2: ... { t(n-1): tn } } }: the keys read from the
\* outermost to the innermost are t1 .. t(n-1) and the innermost value is tn.
C16_SeparatedTextNestsOutermostFirst ==
    (last.op = "error_dict" /\ last.parsed /\ HasSeparator(last.error))
    => LET tokens == split(last.error)
           n == Len(tokens)
       IN  /\ n >= 2
           /\ Joined(tokens, 1) = last.error
           /\ \A i \in 1..n : ~HasSeparator(tokens[i])
           /\ last.error_dict = Nested(tokens, 1)
           /\ KeysOf(last.error_dict) = SubSeq(tokens, 1, n - 1)
           /\ Innermost(last.error_dict) = PyStr(tokens[n])

\* C16 witness: "a: b: a" has been parsed into { a: { b: a } }.
C16_Witness ==
    /\ last.op = "error_dict"
    /\ last.parsed
    /\ last.error = <<"a", ":", " ", "b", ":", " ", "a">>
    /\ last.error_dict = PyDict(<<"a">>, PyDict(<<"b">>, PyStr(<<"a">>)))

\* C17: a delete by id or by recipe_id that matches no Recipe answers 404
\* and changes neither table; one that matches answers with success, removes
\* the one matching Recipe and leaves the other Recipes and every
\* ErrorMessage, those of the deleted recipe_id included, as they were.
C17_DeleteRemovesExactlyTheMatch ==
    [][ last'.op \in {"delete_by_id", "delete_by_recipe_id"}
        => LET matching ==
                   IF last'.op = "delete_by_id"
                   THEN {r \in Recipes : r.id = last'.id}
                   ELSE {r \in Recipes : r.recipe_id = last'.recipe_id}
           IN  /\ ErrorMessages' = ErrorMessages
               /\ IF matching = {}
                  THEN /\ last'.result = "404"
                       /\ Recipes' = Recipes
                  ELSE /\ last'.result = "ok"
                       /\ Cardinality(matching) = 1
                       /\ Recipes' = Recipes \ matching
      ]_vars

\* C17 witness: a recipe was deleted by recipe_id, another recipe is still
\* in the table and so is an ErrorMessage of the deleted recipe_id.
C17_Witness ==
    /\ last.op = "delete_by_recipe_id"
    /\ last.result = "ok"
    /\ RecipesByRecipeId(last.recipe_id) = {}
    /\ Recipes # {}
    /\ ErrorIdsByRecipeId(last.recipe_id) # {}

\* C18: of the six workflow callbacks only request-trust-update writes
\* enabled = true: no step of the other five takes the enabled flag of a
\* Recipe from false to true.
C18_OnlyRequestEnables ==
    [][ last'.op \in WorkflowCallbacks \ {"recipe_trust_update"}
        => \A before \in Recipes, after \in Recipes' :
              (after.id = before.id /\ ~before.enabled) => ~after.enabled
      ]_vars

\* C18 witness: a trust-update-failed callback has returned for a recipe
\* that has another trust action pending, and the recipe is disabled.
C18_Witness ==
    /\ last.op = "recipe_trust_update_failed"
    /\ last.result = "ok"
    /\ PendingTrust(last.recipe_id)
    /\ \E rec \in Recipes : rec.recipe_id = last.recipe_id /\ ~rec.enabled

\* C19: a request-trust-update, deny or trust-update-succeeded callback
\* whose error id is the id of no ErrorMessage fails at its lookup: it
\* changes no Recipe and no ErrorMessage, queues no background action and
\* sends no notification.
C19_UnknownErrorIdFailsAtLookup ==
    [][ ( /\ last'.op \in {"recipe_trust_update", "recipe_trust_deny",
                           "recipe_trust_update_success"}
          /\ last'.id \notin 1..Len(ErrorMessages) )
        => /\ last'.result = "DoesNotExist"
           /\ last'.sent = <<>>
           /\ Recipes' = Recipes
           /\ ErrorMessages' = ErrorMessages
           /\ background_tasks' = background_tasks
      ]_vars

\* C19 witness: a trust update was requested for an error id beyond the
\* ErrorMessages there are, with a recipe and an ErrorMessage in the tables.
C19_Witness ==
    /\ last.op = "recipe_trust_update"
    /\ last.result = "DoesNotExist"
    /\ last.id > Len(ErrorMessages)
    /\ Len(ErrorMessages) >= 1
    /\ Recipes # {}

\* C20: report-error and trust-verify-failed that stop at the disable step,
\* there being no Recipe of the recipe_id, have created their ErrorMessage
\* and sent their notification: the table holds the ErrorMessages it held
\* and one more of that recipe_id, with its handles stored in the
\* report-error case, and no Recipe is created or changed.
C20_EffectsBeforeLookupPersist ==
    [][ (last'.op \in Creators /\ last'.result = "AttributeError")
        => /\ RecipesByRecipeId(last'.recipe_id) = {}
           /\ Recipes' = Recipes
           /\ Len(ErrorMessages') = Len(ErrorMessages) + 1
           /\ SubSeq(ErrorMessages', 1, Len(ErrorMessages)) = ErrorMessages
           /\ ErrorMessages'[Len(ErrorMessages')].recipe_id = last'.recipe_id
           /\ last'.id = Len(ErrorMessages')
           /\ Len(last'.sent) = 1
           /\ last'.op = "recipe_error"
                 => /\ ErrorMessages'[last'.id].slack_ts # None
                    /\ ErrorMessages'[last'.id].slack_channel # None
      ]_vars

\* C20 witness: report-error has stopped for a recipe_id without a Recipe,
\* next to the Recipe of another recipe_id, and its ErrorMessage is in the
\* table with the handles of the notification.
C20_Witness ==
    /\ last.op = "recipe_error"
    /\ last.result = "AttributeError"
    /\ RecipesByRecipeId(last.recipe_id) = {}
    /\ Recipes # {}
    /\ ErrorMessages[last.id].recipe_id = last.recipe_id
    /\ ErrorMessages[last.id].slack_ts # None

====
